---- MODULE Spec2Model ----
(***************************************************************************)
(* The balance and settlement engine of tripsplit-web (src/src/App.tsx):   *)
(* computeBalances turns a group's expenses into one signed balance per    *)
(* member, computeSettlements turns balance rows into pairwise payments.   *)
(*                                                                         *)
(* Money is a JavaScript number in the source.  Here an amount is an       *)
(* integer count of sub-units, SubUnits of them to one cent, so that every *)
(* division amount / splitCount of the model is exact: the model is the    *)
(* code in exact arithmetic, and floating-point drift is outside it.       *)
(***************************************************************************)
EXTENDS Integers, Sequences, FiniteSets, TLC

\* ------------------------------------------------------------------ bounds

MaxMembers == 2

MaxExpenses == 2

MaxRows == 5

\* the calls of addExpense and saveExpenseEdits that get past their guards
MaxWrites == 2

\* the ids given to buildEqualCustomAmounts
MaxPrefillIds == 4

\* the largest total given to buildEqualCustomAmounts, in thousandths
MaxPrefillTotal == 60

\* ------------------------------------------------------------------ numbers

\* The ids an expense of the model may name; a group's members are some of them.
Ids == {"a", "b", "c"}

\* The ids of the rows handed to computeSettlements directly, by position.
RowIds == <<"a", "b", "c", "d", "e", "f", "g">>

RECURSIVE GCD(_, _)
GCD(x, y) == IF y = 0 THEN x ELSE GCD(y, x % y)

RECURSIVE LcmUpTo(_)
LcmUpTo(n) == IF n <= 1 THEN 1 ELSE (LcmUpTo(n - 1) * n) \div GCD(LcmUpTo(n - 1), n)

\* Sub-units per cent: amount / splitCount is exact for every splitCount the
\* model can produce (1 .. Cardinality(Ids)).
SubUnits == LcmUpTo(Cardinality(Ids))

Cents(n) == n * SubUnits

Abs(x) == IF x < 0 THEN -x ELSE x

Min(x, y) == IF x <= y THEN x ELSE y

\* Mutant of roundToCents: Math.ceil in place of Math.round.
roundUpToCents(value) == ((value + SubUnits - 1) \div SubUnits) * SubUnits

\* Math.round(value * 100) / 100: to the nearest cent, a half rounds towards
\* plus infinity (\div is the floor division).
roundToCents(value) == ((2 * value + SubUnits) \div (2 * SubUnits)) * SubUnits

\* Mutant of Epsilon: the cursor moves on at 0.02.
EpsilonTwoCents == Cents(2)

\* Mutant of Epsilon: the test is "< 0", a cursor moves on only below zero.
EpsilonBelowZero == 0 - 1

\* The literal 0.01 of the cursor-advance test.
Epsilon == Cents(1)

\* ------------------------------------------------------------------ data

Member(id) == [id |-> id, name |-> id]

\* splitAmounts is optional: <<>> when the field is absent, <<map>> when present.
NoSplitAmounts == <<>>

SplitAmounts(map) == <<map>>

EmptyMap == [x \in {} |-> 0]

\* splitMode is optional: "equal", "custom", or this when the field is absent.
NoSplitMode == "undefined"

Expense(paidBy, splitBetween, splitMode, splitAmounts, amount) ==
    [amount |-> amount, paidBy |-> paidBy, splitBetween |-> splitBetween,
     splitMode |-> splitMode, splitAmounts |-> splitAmounts]

SeqsUpTo(S, n) == UNION {[1..k -> S] : k \in 0..n}

Range(s) == {s[i] : i \in DOMAIN s}

IsInjective(s) == \A i, j \in DOMAIN s : s[i] = s[j] => i = j

\* Member lists: distinct ids (createId), any order.
MemberLists == {[i \in DOMAIN s |-> Member(s[i])] :
                   s \in {t \in SeqsUpTo(Ids, MaxMembers) : IsInjective(t)}}

ExpenseAmount == Cents(4)

SplitLists == {<<>>, <<"a">>, <<"b", "c">>, <<"a", "b", "c">>}

MapC == [x \in {"c"} |-> Cents(4)]

MapAB == [x \in {"a", "b"} |-> IF x = "a" THEN Cents(1) ELSE Cents(3)]

MapB == [x \in {"b"} |-> Cents(3)]

\* The expenses of the model: equal splits over every split list and payer
\* (the empty payer included), custom mode without a map or with an empty
\* one, custom maps that sum to the amount (MapC, MapAB) or fall short of it
\* (MapB), and stale records: a map on an equal-mode expense, an expense
\* without payer.
ExpensePool ==
    {Expense(p, s, "equal", NoSplitAmounts, ExpenseAmount) :
        p \in {"", "a", "c"}, s \in SplitLists}
    \cup {Expense("a", s, "custom", NoSplitAmounts, ExpenseAmount) :
        s \in {<<>>, <<"b", "c">>}}
    \cup {Expense("c", <<"a">>, "custom", SplitAmounts(EmptyMap), ExpenseAmount)}
    \cup {Expense(p, <<"b", "c">>, "custom", SplitAmounts(m), ExpenseAmount) :
        p \in {"a", "c"}, m \in {MapC, MapB}}
    \cup {Expense(p, <<"a", "b", "c">>, "custom", SplitAmounts(MapAB), ExpenseAmount) :
        p \in {"a", "c"}}
    \cup {Expense("a", <<"b", "c">>, "equal", SplitAmounts(MapC), ExpenseAmount),
          Expense("a", <<>>, "equal", SplitAmounts(MapC), ExpenseAmount),
          Expense("a", <<"b", "c">>, NoSplitMode, SplitAmounts(MapC), ExpenseAmount),
          Expense("", <<"b", "c">>, "custom", SplitAmounts(MapC), ExpenseAmount)}

Groups == [members : MemberLists, expenses : SeqsUpTo(ExpensePool, MaxExpenses)]

\* The balances handed to computeSettlements directly: whole cents, a third
\* of a cent (rounds to 0.00) and zero, of both signs.
BalanceValues == {Cents(-3), Cents(-1), -2, 0, 2, Cents(1), Cents(2)}

RowLists == {[i \in DOMAIN s |-> [member |-> Member(RowIds[i]), balance |-> s[i]]] :
                s \in SeqsUpTo(BalanceValues, MaxRows)}

\* ------------------------------------------------------------------ state

VARIABLES
    group,          \* the Group given to computeBalances
    balances,       \* computeBalances: the Record<string, number> it accumulates
    expIdx,         \* computeBalances: expenses of group.expenses processed so far
    balanceRows,    \* the rows computeBalances returns, computeSettlements takes
    creditors,      \* computeSettlements: rows with balance > 0, remaining amounts
    debtors,        \* computeSettlements: rows with balance < 0, remaining amounts
    debtorIndex,    \* computeSettlements: cursor into debtors (0-based)
    creditorIndex,  \* computeSettlements: cursor into creditors (0-based)
    settlements,    \* computeSettlements: the list it returns
    pc,             \* where the engine is
    cloud,          \* the group document: members, expenses, expenseMasters
    activeGroup,    \* per client: the group its last snapshot delivered, if any
    inFlight,       \* per client: updateDoc calls sent and not yet answered
    clock,          \* Date.now(), one tick per handler call
    committed,      \* the writes the document accepted, in commit order
    prefill         \* buildEqualCustomAmounts: its arguments, locals and result

vars == <<group, balances, expIdx, balanceRows, creditors, debtors,
          debtorIndex, creditorIndex, settlements, pc,
          cloud, activeGroup, inFlight, clock, committed, prefill>>

engineVars == <<group, balances, expIdx, balanceRows, creditors, debtors,
                debtorIndex, creditorIndex, settlements, pc>>

appVars == <<cloud, activeGroup, inFlight, clock, committed, prefill>>

\* Two signed-in collaborators of the group.
Clients == {"c1", "c2"}

\* activeGroup is null until a snapshot delivers the group.
NoGroup == <<>>

\* buildEqualCustomAmounts has not been called.
NoPrefill == <<>>

\* Nobody is signed in: no listener, no group, no write, no form.
SignedOut ==
    /\ cloud = [members |-> <<>>, expenses |-> <<>>, expenseMasters |-> <<>>]
    /\ activeGroup = [c \in Clients |-> NoGroup]
    /\ inFlight = [c \in Clients |-> <<>>]
    /\ clock = 0
    /\ committed = <<>>
    /\ prefill = NoPrefill

balVars == <<group, balances, expIdx>>

setVars == <<creditors, debtors, debtorIndex, creditorIndex, settlements>>

\* ------------------------------------------------------------------ computeBalances

\* balances[id], 0 when the id is not a key yet.
Get(b, id) == IF id \in DOMAIN b THEN b[id] ELSE 0

\* Mutant of AddTo: the update is in the else branch of the initialisation,
\* an id seen for the first time is set to 0 and not updated.
AddToElse(b, id, delta) ==
    [x \in DOMAIN b \cup {id} |->
        IF x \in DOMAIN b THEN (IF x = id THEN b[x] + delta ELSE b[x]) ELSE 0]

\* if (!(id in balances)) balances[id] = 0; balances[id] += delta
AddTo(b, id, delta) ==
    [x \in DOMAIN b \cup {id} |-> IF x = id THEN Get(b, x) + delta ELSE b[x]]

\* Mutant of hasCustomSplit: splitMode === "custom" && splitAmounts && ...
hasCustomSplitInCustomMode(expense) ==
    /\ expense.splitMode = "custom"
    /\ Len(expense.splitAmounts) > 0
    /\ DOMAIN expense.splitAmounts[1] # {}

\* (splitMode === "custom" || !!splitAmounts) && splitAmounts &&
\* Object.keys(splitAmounts).length > 0
hasCustomSplit(expense) ==
    /\ (expense.splitMode = "custom" \/ Len(expense.splitAmounts) > 0)
    /\ Len(expense.splitAmounts) > 0
    /\ DOMAIN expense.splitAmounts[1] # {}

\* Mutant of DebitCustom: balances[memberId] += amount.
RECURSIVE DebitCustomAdds(_, _, _)
DebitCustomAdds(b, splitAmounts, keys) ==
    IF keys = {} THEN b
    ELSE LET memberId == CHOOSE k \in keys : TRUE
         IN  DebitCustomAdds(AddTo(b, memberId, splitAmounts[memberId]),
                             splitAmounts, keys \ {memberId})

\* for (const [memberId, amount] of Object.entries(splitAmounts)) ...
RECURSIVE DebitCustom(_, _, _)
DebitCustom(b, splitAmounts, keys) ==
    IF keys = {} THEN b
    ELSE LET memberId == CHOOSE k \in keys : TRUE
         IN  DebitCustom(AddTo(b, memberId, -splitAmounts[memberId]),
                         splitAmounts, keys \ {memberId})

\* Mutant of splitMembers: the payer is left out of the split.
splitMembersExceptPayer(expense) ==
    IF Len(expense.splitBetween) > 0
    THEN SelectSeq(expense.splitBetween, LAMBDA id : id # expense.paidBy)
    ELSE <<expense.paidBy>>

\* splitBetween when it is a non-empty array, [paidBy] otherwise.
splitMembers(expense) ==
    IF Len(expense.splitBetween) > 0 THEN expense.splitBetween
    ELSE <<expense.paidBy>>

\* Mutant of share: the share is rounded to cents.
shareInCents(expense) ==
    roundToCents(expense.amount \div Len(splitMembers(expense)))

\* expense.amount / (splitMembers.length || 1)
share(expense) == expense.amount \div Len(splitMembers(expense))

\* Mutant of DebitShares: the loop starts at the second element.
RECURSIVE DebitSharesFromSecond(_, _, _)
DebitSharesFromSecond(b, members, amount) ==
    IF Len(members) <= 1 THEN b
    ELSE DebitSharesFromSecond(AddTo(b, members[2], -amount), Tail(members), amount)

\* Mutant of DebitShares: the loop runs over the keys of balances.
DebitSharesAllKeys(b, members, amount) == [x \in DOMAIN b |-> b[x] - amount]

\* for (const memberId of splitMembers) ... balances[memberId] -= share
RECURSIVE DebitShares(_, _, _)
DebitShares(b, members, amount) ==
    IF members = <<>> THEN b
    ELSE DebitShares(AddTo(b, Head(members), -amount), Tail(members), amount)

\* Mutant of ApplyExpense: an expense whose payer is not a key yet is skipped.
ApplyExpenseKnownPayer(b, expense) ==
    IF expense.paidBy = "" \/ expense.paidBy \notin DOMAIN b THEN b
    ELSE LET credited == AddTo(b, expense.paidBy, expense.amount)
         IN  IF hasCustomSplit(expense)
             THEN DebitCustom(credited, expense.splitAmounts[1],
                              DOMAIN expense.splitAmounts[1])
             ELSE DebitShares(credited, splitMembers(expense), share(expense))

\* Mutant of ApplyExpense: an expense without payer is not skipped.
ApplyExpenseAnyPayer(b, expense) ==
    LET credited == AddTo(b, expense.paidBy, expense.amount)
    IN  IF hasCustomSplit(expense)
        THEN DebitCustom(credited, expense.splitAmounts[1],
                         DOMAIN expense.splitAmounts[1])
        ELSE DebitShares(credited, splitMembers(expense), share(expense))

\* One iteration of the loop over group.expenses.
ApplyExpense(b, expense) ==
    IF expense.paidBy = "" THEN b
    ELSE LET credited == AddTo(b, expense.paidBy, expense.amount)
         IN  IF hasCustomSplit(expense)
             THEN DebitCustom(credited, expense.splitAmounts[1],
                              DOMAIN expense.splitAmounts[1])
             ELSE DebitShares(credited, splitMembers(expense), share(expense))

\* balances[member.id] = 0 for every member.
BalStart ==
    /\ pc = "start"
    /\ balances' = [id \in {group.members[i].id : i \in DOMAIN group.members} |-> 0]
    /\ expIdx' = 0
    /\ pc' = "loop"
    /\ UNCHANGED <<group, balanceRows, setVars>>
    /\ UNCHANGED appVars

ProcessExpense ==
    /\ pc = "loop"
    /\ expIdx < Len(group.expenses)
    /\ balances' = ApplyExpense(balances, group.expenses[expIdx + 1])
    /\ expIdx' = expIdx + 1
    /\ UNCHANGED <<group, balanceRows, setVars, pc>>
    /\ UNCHANGED appVars

\* Mutant of Rows: the rows are built last member first.
RowsReversed(members, b) ==
    [i \in DOMAIN members |->
        [member |-> members[Len(members) + 1 - i],
         balance |-> Get(b, members[Len(members) + 1 - i].id)]]

\* group.members.map(member => ({member, balance: balances[member.id] || 0}))
Rows(members, b) ==
    [i \in DOMAIN members |->
        [member |-> members[i], balance |-> Get(b, members[i].id)]]

\* The loop is over: return the rows.
BuildRows ==
    /\ pc = "loop"
    /\ expIdx = Len(group.expenses)
    /\ balanceRows' = Rows(group.members, balances)
    /\ pc' = "rows"
    /\ UNCHANGED <<balVars, setVars>>
    /\ UNCHANGED appVars

\* ------------------------------------------------------------------ computeSettlements

IsCreditor(row) == row.balance > 0

IsDebtor(row) == row.balance < 0

\* rows with balance > 0, amount: roundToCents(balance)
Creditors(rows) ==
    LET kept == SelectSeq(rows, IsCreditor)
    IN  [i \in DOMAIN kept |->
            [member |-> kept[i].member, amount |-> roundToCents(kept[i].balance)]]

\* Mutant of Debtors: the debtors are sorted, largest debt first.
RECURSIVE SortedByAmount(_)
SortedByAmount(s) ==
    IF s = <<>> THEN <<>>
    ELSE LET i == CHOOSE k \in DOMAIN s :
                      \A j \in DOMAIN s :
                          s[k].amount > s[j].amount \/ (s[k].amount = s[j].amount /\ k <= j)
         IN  <<s[i]>> \o SortedByAmount(SubSeq(s, 1, i - 1) \o SubSeq(s, i + 1, Len(s)))

DebtorsSorted(rows) ==
    LET kept == SelectSeq(rows, IsDebtor)
    IN  SortedByAmount([i \in DOMAIN kept |->
            [member |-> kept[i].member, amount |-> roundToCents(Abs(kept[i].balance))]])

\* rows with balance < 0, amount: roundToCents(Math.abs(balance))
Debtors(rows) ==
    LET kept == SelectSeq(rows, IsDebtor)
    IN  [i \in DOMAIN kept |->
            [member |-> kept[i].member, amount |-> roundToCents(Abs(kept[i].balance))]]

\* The two filters and the initialisation of the cursors and of the result.
Partition ==
    /\ pc = "rows"
    /\ creditors' = Creditors(balanceRows)
    /\ debtors' = Debtors(balanceRows)
    /\ settlements' = <<>>
    /\ debtorIndex' = 0
    /\ creditorIndex' = 0
    /\ pc' = "match"
    /\ UNCHANGED <<balVars, balanceRows>>
    /\ UNCHANGED appVars

\* Mutant of payment: Math.max.
paymentMax(debtor, creditor) ==
    IF debtor.amount >= creditor.amount THEN debtor.amount ELSE creditor.amount

\* Math.min(debtor.amount, creditor.amount)
payment(debtor, creditor) == Min(debtor.amount, creditor.amount)

\* Mutant of settlement: from and to are exchanged.
settlementSwapped(debtor, creditor, paid) ==
    [from |-> creditor.member, to |-> debtor.member, amount |-> paid]

\* {from: debtor.member, to: creditor.member, amount: payment}
settlement(debtor, creditor, paid) ==
    [from |-> debtor.member, to |-> creditor.member, amount |-> paid]

\* Mutant of remaining: the payment is not subtracted.
remainingUnpaid(amount, paid) == roundToCents(amount)

\* roundToCents(amount - payment)
remaining(amount, paid) == roundToCents(amount - paid)

\* Mutant of MatchStep: creditors and debtors hold the row objects
\* themselves (filter without map), so that the remaining amounts are
\* written into the rows.
MatchStepInPlace ==
    /\ pc = "match"
    /\ debtorIndex < Len(debtors)
    /\ creditorIndex < Len(creditors)
    /\ LET debtor == debtors[debtorIndex + 1]
           creditor == creditors[creditorIndex + 1]
           paid == payment(debtor, creditor)
           debtorLeft == remaining(debtor.amount, paid)
           creditorLeft == remaining(creditor.amount, paid)
       IN  /\ settlements' =
                 IF paid > 0
                 THEN Append(settlements, settlement(debtor, creditor, paid))
                 ELSE settlements
           /\ debtors' = [debtors EXCEPT ![debtorIndex + 1].amount = debtorLeft]
           /\ creditors' = [creditors EXCEPT ![creditorIndex + 1].amount = creditorLeft]
           /\ balanceRows' =
                 [i \in DOMAIN balanceRows |->
                     IF balanceRows[i].member = debtor.member
                     THEN [balanceRows[i] EXCEPT !.balance = -debtorLeft]
                     ELSE IF balanceRows[i].member = creditor.member
                     THEN [balanceRows[i] EXCEPT !.balance = creditorLeft]
                     ELSE balanceRows[i]]
           /\ debtorIndex' = IF debtorLeft <= Epsilon THEN debtorIndex + 1
                             ELSE debtorIndex
           /\ creditorIndex' = IF creditorLeft <= Epsilon THEN creditorIndex + 1
                               ELSE creditorIndex
    /\ UNCHANGED <<balVars, pc>>
    /\ UNCHANGED appVars

\* One iteration of the while loop.
MatchStep ==
    /\ pc = "match"
    /\ debtorIndex < Len(debtors)
    /\ creditorIndex < Len(creditors)
    /\ LET debtor == debtors[debtorIndex + 1]
           creditor == creditors[creditorIndex + 1]
           paid == payment(debtor, creditor)
           debtorLeft == remaining(debtor.amount, paid)
           creditorLeft == remaining(creditor.amount, paid)
       IN  /\ settlements' =
                 IF paid > 0
                 THEN Append(settlements, settlement(debtor, creditor, paid))
                 ELSE settlements
           /\ debtors' = [debtors EXCEPT ![debtorIndex + 1].amount = debtorLeft]
           /\ creditors' = [creditors EXCEPT ![creditorIndex + 1].amount = creditorLeft]
           /\ debtorIndex' = IF debtorLeft <= Epsilon THEN debtorIndex + 1
                             ELSE debtorIndex
           /\ creditorIndex' = IF creditorLeft <= Epsilon THEN creditorIndex + 1
                               ELSE creditorIndex
    /\ UNCHANGED <<balVars, balanceRows, pc>>
    /\ UNCHANGED appVars

\* The loop condition fails: return settlements.
Return ==
    /\ pc = "match"
    /\ ~(debtorIndex < Len(debtors) /\ creditorIndex < Len(creditors))
    /\ pc' = "settled"
    /\ UNCHANGED <<balVars, balanceRows, setVars>>
    /\ UNCHANGED appVars

\* ------------------------------------------------------------------ specification

NoRows == <<>>

Init ==
    /\ group \in Groups
    /\ balances = EmptyMap
    /\ expIdx = 0
    /\ balanceRows = NoRows
    /\ creditors = <<>>
    /\ debtors = <<>>
    /\ debtorIndex = 0
    /\ creditorIndex = 0
    /\ settlements = <<>>
    /\ pc = "start"
    /\ SignedOut

Next ==
    \/ BalStart
    \/ ProcessExpense
    \/ BuildRows

Spec == Init /\ [][Next]_vars

\* computeSettlements applied to any list of balance rows.
SettleInit ==
    /\ group = [members |-> <<>>, expenses |-> <<>>]
    /\ balances = EmptyMap
    /\ expIdx = 0
    /\ balanceRows \in RowLists
    /\ creditors = <<>>
    /\ debtors = <<>>
    /\ debtorIndex = 0
    /\ creditorIndex = 0
    /\ settlements = <<>>
    /\ pc = "rows"
    /\ SignedOut

SettleNext ==
    \/ Partition
    \/ MatchStep
    \/ Return

SettleSpec == SettleInit /\ [][SettleNext]_vars

RECURSIVE SumRows(_)
SumRows(rows) ==
    IF rows = <<>> THEN 0 ELSE Head(rows).balance + SumRows(Tail(rows))

\* computeSettlements applied to rows in whole cents that sum to zero: what
\* computeBalances returns for a group whose expenses and custom splits are
\* in cents and name members only.
BalancedRowLists ==
    {rows \in RowLists :
        /\ SumRows(rows) = 0
        /\ \A i \in DOMAIN rows : rows[i].balance % SubUnits = 0}

BalancedInit ==
    /\ group = [members |-> <<>>, expenses |-> <<>>]
    /\ balances = EmptyMap
    /\ expIdx = 0
    /\ balanceRows \in BalancedRowLists
    /\ creditors = <<>>
    /\ debtors = <<>>
    /\ debtorIndex = 0
    /\ creditorIndex = 0
    /\ settlements = <<>>
    /\ pc = "rows"
    /\ SignedOut

BalancedSpec == BalancedInit /\ [][SettleNext]_vars

\* ------------------------------------------------------------------ claims

\* What the settlements of a list pay out of, and into, one member.
RECURSIVE SumFrom(_, _)
SumFrom(list, member) ==
    IF list = <<>> THEN 0
    ELSE (IF Head(list).from = member THEN Head(list).amount ELSE 0)
         + SumFrom(Tail(list), member)

RECURSIVE SumTo(_, _)
SumTo(list, member) ==
    IF list = <<>> THEN 0
    ELSE (IF Head(list).to = member THEN Head(list).amount ELSE 0)
         + SumTo(Tail(list), member)

\* C1: when computeSettlements has returned, every row with a negative
\* balance has paid, over the settlements it is the `from` of, its absolute
\* balance to within 0.01, and every row with a positive balance has
\* received, over the settlements it is the `to` of, its balance to within 0.01.
C1_Conservation ==
    pc = "settled" =>
        \A i \in DOMAIN balanceRows :
            LET row == balanceRows[i]
            IN  /\ row.balance < 0 =>
                      Abs(SumFrom(settlements, row.member) - Abs(row.balance)) <= Epsilon
                /\ row.balance > 0 =>
                      Abs(SumTo(settlements, row.member) - row.balance) <= Epsilon


MemberIds(g) == {g.members[i].id : i \in DOMAIN g.members}

RECURSIVE SumOver(_, _)
SumOver(f, keys) ==
    IF keys = {} THEN 0
    ELSE LET k == CHOOSE x \in keys : TRUE
         IN  f[k] + SumOver(f, keys \ {k})

\* The sum of all entries of a mapping.
SumMap(f) == SumOver(f, DOMAIN f)

\* An expense is debited by its map when it carries a non-empty one.
UsesMap(e) == Len(e.splitAmounts) > 0 /\ DOMAIN e.splitAmounts[1] # {}

\* The ids an expense debits: the keys of its map, else splitBetween, else
\* the payer.
Targets(e) ==
    IF UsesMap(e) THEN DOMAIN e.splitAmounts[1]
    ELSE IF e.splitBetween # <<>> THEN Range(e.splitBetween)
    ELSE {e.paidBy}

\* What its map leaves of the amount of an expense: 0 for an expense that is
\* skipped or split equally.
Deficit(e) ==
    IF e.paidBy # "" /\ UsesMap(e) THEN e.amount - SumMap(e.splitAmounts[1]) ELSE 0

RECURSIVE DeficitUpTo(_, _)
DeficitUpTo(expenses, n) ==
    IF n = 0 THEN 0 ELSE DeficitUpTo(expenses, n - 1) + Deficit(expenses[n])

\* Every expense with a payer names members only and, when it is debited by
\* its map, the map sums to its amount.
MembersOnly(g) ==
    \A k \in DOMAIN g.expenses :
        LET e == g.expenses[k]
        IN  e.paidBy # "" =>
                /\ e.paidBy \in MemberIds(g)
                /\ Targets(e) \subseteq MemberIds(g)
                /\ Deficit(e) = 0

\* C2 as stated: for any group, the balances of the returned rows sum to 0.
C2_RowsSumZero ==
    pc = "rows" => SumRows(balanceRows) = 0

\* C2: for a group whose expenses name members only (payer and debited ids)
\* and whose custom maps sum to their expense's amount, the balances of the
\* rows computeBalances returns sum to 0.
C2_RowsSumZeroMembersOnly ==
    (pc = "rows" /\ MembersOnly(group)) => SumRows(balanceRows) = 0

C2_Witness ==
    /\ pc = "rows"
    /\ MembersOnly(group)
    /\ Len(group.expenses) = 2
    /\ UsesMap(group.expenses[1])
    /\ ~UsesMap(group.expenses[2])
    /\ \A k \in 1..2 : group.expenses[k].paidBy # ""
    /\ \A i \in DOMAIN balanceRows : balanceRows[i].balance # 0
    /\ Len(balanceRows) = 2

\* C3 as stated: after any prefix of the expenses, the entries of the
\* mapping sum to 0.
C3_MappingSumZero ==
    pc \in {"loop", "rows"} => SumMap(balances) = 0

\* C3: after any prefix of the expenses, the entries of the mapping (members
\* and ids added on demand) sum to what the custom maps of the processed
\* expenses leave of their amounts: an expense that is skipped or split
\* equally contributes 0, an expense debited by its map contributes its
\* amount minus the sum of the map.
C3_MappingSumIsDeficit ==
    pc \in {"loop", "rows"} =>
        SumMap(balances) = DeficitUpTo(group.expenses, expIdx)

C3_Witness ==
    /\ pc = "loop"
    /\ expIdx = 2
    /\ Deficit(group.expenses[1]) # 0
    /\ ~UsesMap(group.expenses[2])
    /\ group.expenses[2].paidBy # ""
    /\ Len(group.expenses[2].splitBetween) = 3
    /\ DOMAIN balances # MemberIds(group)
    /\ SumMap(balances) # 0


\* C4 as stated: if every row is within 0.01 of zero, nothing is returned.
C4_EmptyWithinOneCent ==
    (pc = "settled" /\ \A i \in DOMAIN balanceRows :
                          Abs(balanceRows[i].balance) <= Epsilon)
        => settlements = <<>>

\* C4: if every row has an absolute balance below 0.005, so that it rounds
\* to 0.00, computeSettlements returns an empty list.
C4_EmptyBelowHalfCent ==
    (pc = "settled" /\ \A i \in DOMAIN balanceRows :
                          2 * Abs(balanceRows[i].balance) < Epsilon)
        => settlements = <<>>

C4_Witness ==
    /\ pc = "settled"
    /\ \A i \in DOMAIN balanceRows : 2 * Abs(balanceRows[i].balance) < Epsilon
    /\ Len(creditors) >= 2
    /\ Len(debtors) >= 2
    /\ debtorIndex + creditorIndex >= 3
    /\ settlements = <<>>

Max(x, y) == IF x >= y THEN x ELSE y

\* C5 as stated: the number of settlements is at most the number of rows
\* with a positive balance plus the number of rows with a negative balance
\* minus one.
C5_AtMostPartiesMinusOne ==
    pc \in {"match", "settled"} =>
        Len(settlements) <= Len(SelectSeq(balanceRows, IsCreditor))
                            + Len(SelectSeq(balanceRows, IsDebtor)) - 1

\* C5: at every point of the loop and at the return, the number of
\* settlements is at most the number of rows with a positive balance plus
\* the number of rows with a negative balance minus one, and 0 when no row
\* has a balance other than zero.
C5_AtMostPartiesMinusOneOrNone ==
    pc \in {"match", "settled"} =>
        Len(settlements) <= Max(0, Len(SelectSeq(balanceRows, IsCreditor))
                                   + Len(SelectSeq(balanceRows, IsDebtor)) - 1)

C5_Witness ==
    /\ pc = "settled"
    /\ Len(creditors) = 2
    /\ Len(debtors) = 1
    /\ Len(settlements) = 2
    /\ Len(balanceRows) = MaxRows

MemberOfRow(member, test(_)) ==
    \E i \in DOMAIN balanceRows :
        balanceRows[i].member = member /\ test(balanceRows[i])

\* C6: every settlement emitted so far has an amount > 0, goes from the
\* member of a row with balance < 0 to the member of a row with balance > 0,
\* names no member of a row with balance 0, and has two different ends.
C6_SettlementEnds ==
    pc \in {"match", "settled"} =>
        \A k \in DOMAIN settlements :
            LET s == settlements[k]
            IN  /\ s.amount > 0
                /\ MemberOfRow(s.from, IsDebtor)
                /\ MemberOfRow(s.to, IsCreditor)
                /\ \A i \in DOMAIN balanceRows :
                       balanceRows[i].balance = 0 =>
                           balanceRows[i].member \notin {s.from, s.to}
                /\ s.from # s.to

C6_Witness ==
    /\ pc = "settled"
    /\ Len(settlements) = 2
    /\ \E i \in DOMAIN balanceRows : balanceRows[i].balance = 0
    /\ \E i \in DOMAIN balanceRows : balanceRows[i].balance = 2


\* What an expense credits to an id, and what it debits from it, stated from
\* the split rule and not from the loop of computeBalances.
Credit(e, id) == IF e.paidBy # "" /\ id = e.paidBy THEN e.amount ELSE 0

Debit(e, id) ==
    IF e.paidBy = "" \/ id \notin Targets(e) THEN 0
    ELSE IF UsesMap(e) THEN e.splitAmounts[1][id]
    ELSE e.amount \div Cardinality(Targets(e))

RECURSIVE NetUpTo(_, _, _)
NetUpTo(expenses, n, id) ==
    IF n = 0 THEN 0
    ELSE NetUpTo(expenses, n - 1, id) + Credit(expenses[n], id) - Debit(expenses[n], id)

\* C7: computeBalances returns one row per element of group.members, in the
\* order of group.members, each with that member and the value accumulated
\* for its id (the credits minus the debits of all expenses, 0 if none); no
\* row is for an id that is not a member.
C7_RowPerMember ==
    pc = "rows" =>
        /\ Len(balanceRows) = Len(group.members)
        /\ \A i \in DOMAIN balanceRows :
               /\ balanceRows[i].member = group.members[i]
               /\ balanceRows[i].balance = Get(balances, group.members[i].id)
               /\ balanceRows[i].balance =
                      NetUpTo(group.expenses, Len(group.expenses), group.members[i].id)
        /\ \A i \in DOMAIN balanceRows : balanceRows[i].member.id \in MemberIds(group)

C7_Witness ==
    /\ pc = "rows"
    /\ Len(group.members) = 2
    /\ group.members[1].id = "c"
    /\ group.members[2].id = "a"
    /\ DOMAIN balances = Ids
    /\ balances["b"] # 0
    /\ balanceRows[1].balance > 0
    /\ balanceRows[2].balance < 0
    /\ balanceRows[1].balance # -balanceRows[2].balance

\* The expense processed by a step of the loop.
Processed == group.expenses[expIdx + 1]

CustomStep ==
    /\ pc = "loop"
    /\ expIdx' = expIdx + 1
    /\ Processed.paidBy # ""
    /\ UsesMap(Processed)
    /\ Processed.splitMode = "custom"
    /\ SumMap(Processed.splitAmounts[1]) = Processed.amount

\* C8 as stated: a custom split whose map sums to the amount debits each id
\* of the map by its mapped amount and leaves the balance of every member
\* omitted from the map untouched.
C8_CustomOmittedUntouched ==
    [][CustomStep =>
         LET e == Processed
         IN  /\ \A id \in DOMAIN e.splitAmounts[1] :
                    Get(balances', id) =
                        Get(balances, id) + Credit(e, id) - e.splitAmounts[1][id]
             /\ \A id \in MemberIds(group) \ DOMAIN e.splitAmounts[1] :
                    Get(balances', id) = Get(balances, id)]_vars

\* C8: a custom split whose map sums to the amount debits each id of the
\* map by its mapped amount; an id omitted from the map is not debited: its
\* balance is untouched, except that of the payer, which is credited the
\* amount.
C8_CustomExact ==
    [][CustomStep =>
         LET e == Processed
         IN  /\ \A id \in DOMAIN e.splitAmounts[1] :
                    Get(balances', id) =
                        Get(balances, id) + Credit(e, id) - e.splitAmounts[1][id]
             /\ \A id \in Ids \ DOMAIN e.splitAmounts[1] :
                    Get(balances', id) = Get(balances, id) + Credit(e, id)
             /\ DOMAIN balances' =
                    DOMAIN balances \cup DOMAIN e.splitAmounts[1] \cup {e.paidBy}]_vars

\* A custom split that sums to its amount follows an equal split: the ids
\* of the map are debited, the third id keeps its balance.
C8_Witness ==
    /\ pc = "loop"
    /\ expIdx = 2
    /\ ~UsesMap(group.expenses[1])
    /\ group.expenses[1].paidBy = "a"
    /\ Len(group.expenses[1].splitBetween) = 3
    /\ group.expenses[2].splitMode = "custom"
    /\ group.expenses[2].paidBy = "a"
    /\ UsesMap(group.expenses[2])
    /\ DOMAIN group.expenses[2].splitAmounts[1] = {"a", "b"}
    /\ Deficit(group.expenses[2]) = 0
    /\ Len(group.members) = 2
    /\ balances["c"] = NetUpTo(group.expenses, 1, "c")
    /\ balances["b"] = NetUpTo(group.expenses, 1, "b") - Cents(3)

EqualStep ==
    /\ pc = "loop"
    /\ expIdx' = expIdx + 1
    /\ Processed.paidBy # ""
    /\ ~UsesMap(Processed)
    /\ Processed.splitBetween # <<>>

\* C9: an expense of amount A split equally among the n ids of splitBetween
\* debits each of them by A/n (n times the debit is A) and no other id; the
\* debits sum to A, so that the sum of the mapping is unchanged.
C9_EqualSplit ==
    [][EqualStep =>
         LET e == Processed
             n == Len(e.splitBetween)
             debit(id) == Get(balances, id) + Credit(e, id) - Get(balances', id)
         IN  /\ \A id \in Range(e.splitBetween) : n * debit(id) = e.amount
             /\ \A id \in Ids \ Range(e.splitBetween) : debit(id) = 0
             /\ SumMap(balances') = SumMap(balances)]_vars

\* A split in three, just processed: the payer holds two thirds, the two
\* others owe a third each, a third that is not a whole number of cents.
C9_Witness ==
    /\ pc = "loop"
    /\ expIdx = 1
    /\ ~UsesMap(group.expenses[1])
    /\ group.expenses[1].paidBy = "a"
    /\ Len(group.expenses[1].splitBetween) = 3
    /\ 3 * balances["b"] = -group.expenses[1].amount
    /\ 3 * balances["c"] = -group.expenses[1].amount
    /\ 3 * balances["a"] = 2 * group.expenses[1].amount
    /\ balances["b"] % SubUnits # 0

\* The ids that the expenses with a payer name, as payer or as a debited
\* id, and that are not members.
UnknownIds(g) ==
    UNION {({g.expenses[k].paidBy} \cup Targets(g.expenses[k])) \ MemberIds(g) :
              k \in {j \in DOMAIN g.expenses : g.expenses[j].paidBy # ""}}

\* C10 as stated: an id that is not a member and that an expense names is a
\* key of the mapping with a nonzero value, and is in no returned row.
C10_UnknownIdsNonzero ==
    pc = "rows" =>
        \A id \in UnknownIds(group) :
            /\ id \in DOMAIN balances
            /\ balances[id] # 0
            /\ \A i \in DOMAIN balanceRows : balanceRows[i].member.id # id

\* C10: computeBalances always reaches its return; an id that is not a
\* member and that an expense with a payer names, as payer or as a debited
\* id, is a key of the mapping, which holds the net of its credits and
\* debits counted from 0 (a net that may be 0), and it is in no returned
\* row; the mapping has no other key than the members and these ids.
C10_UnknownIdsTracked ==
    /\ pc \in {"start", "loop"} => ENABLED Next
    /\ pc \in {"loop", "rows"} => DOMAIN balances \subseteq MemberIds(group) \cup UnknownIds(group)
    /\ pc = "rows" =>
          /\ DOMAIN balances = MemberIds(group) \cup UnknownIds(group)
          /\ \A id \in UnknownIds(group) :
                 /\ balances[id] = NetUpTo(group.expenses, Len(group.expenses), id)
                 /\ \A i \in DOMAIN balanceRows : balanceRows[i].member.id # id

C10_Witness ==
    /\ pc = "rows"
    /\ Len(group.members) = 1
    /\ Cardinality(UnknownIds(group)) = 2
    /\ \E id \in UnknownIds(group) : balances[id] = 0
    /\ \E id \in UnknownIds(group) : balances[id] # 0
    /\ \E k \in DOMAIN group.expenses : group.expenses[k].paidBy \in UnknownIds(group)


\* ------------------------------------------------------------------ the engine as the application calls it

\* The scenario of the specification: members A, B, C; 90 paid by A and
\* split equally among the three; 30 paid by B with the custom split {C: 30}.
ScenarioGroup ==
    [members |-> <<Member("a"), Member("b"), Member("c")>>,
     expenses |->
        <<Expense("a", <<"a", "b", "c">>, "equal", NoSplitAmounts, Cents(9000)),
          Expense("b", <<"c">>, "custom",
                  SplitAmounts([x \in {"c"} |-> Cents(3000)]), Cents(3000))>>]

\* balances = computeBalances(activeGroup); settlements =
\* computeSettlements(balances): the second call takes what the first returns.
EngineInit ==
    /\ group \in Groups \cup {ScenarioGroup}
    /\ balances = EmptyMap
    /\ expIdx = 0
    /\ balanceRows = NoRows
    /\ creditors = <<>>
    /\ debtors = <<>>
    /\ debtorIndex = 0
    /\ creditorIndex = 0
    /\ settlements = <<>>
    /\ pc = "start"
    /\ SignedOut

EngineNext ==
    \/ BalStart
    \/ ProcessExpense
    \/ BuildRows
    \/ Partition
    \/ MatchStep
    \/ Return

EngineSpec == EngineInit /\ [][EngineNext]_vars

\* An expense names an id: as payer, in splitBetween or as a key of its map.
Names(e, id) ==
    \/ e.paidBy = id
    \/ id \in Range(e.splitBetween)
    \/ Len(e.splitAmounts) > 0 /\ id \in DOMAIN e.splitAmounts[1]

\* C11: the two functions always reach their return; a group with no members
\* yields no row and then no settlement; a group with no expenses yields
\* balance 0 for every member; a member that no expense names has balance 0
\* whatever the other expenses are.
C11_Degenerate ==
    /\ pc # "settled" => ENABLED EngineNext
    /\ pc \in {"rows", "match", "settled"} =>
          /\ group.members = <<>> => balanceRows = <<>>
          /\ group.expenses = <<>> =>
                 \A i \in DOMAIN balanceRows : balanceRows[i].balance = 0
          /\ Len(balanceRows) = Len(group.members)
          /\ \A i \in DOMAIN group.members :
                 (\A k \in DOMAIN group.expenses :
                      ~Names(group.expenses[k], group.members[i].id))
                     => balanceRows[i].balance = 0
    /\ (pc \in {"match", "settled"} /\ group.members = <<>>) => settlements = <<>>

\* Two expenses that name a and c only, in a group of b and a: the row of b
\* is 0, the row of a is not, and the settlement list has been returned.
C11_Witness ==
    /\ pc = "settled"
    /\ Len(group.members) = 2
    /\ Len(group.expenses) = 2
    /\ \A k \in DOMAIN group.expenses :
           /\ group.expenses[k].paidBy # ""
           /\ ~Names(group.expenses[k], "b")
    /\ group.members[1].id = "b"
    /\ balanceRows[1].balance = 0
    /\ balanceRows[2].balance # 0
    /\ "c" \in DOMAIN balances


\* computeBalances as a function of the group: the initialisation, the loop
\* over the expenses in list order, the rows.
RECURSIVE BalancesAfter(_, _)
BalancesAfter(b, expenses) ==
    IF expenses = <<>> THEN b
    ELSE BalancesAfter(ApplyExpense(b, Head(expenses)), Tail(expenses))

computeBalances(g) ==
    Rows(g.members,
         BalancesAfter([id \in {g.members[i].id : i \in DOMAIN g.members} |-> 0],
                       g.expenses))

Orders(n) == {p \in [1..n -> 1..n] : IsInjective(p)}

Permuted(g, p) == [g EXCEPT !.expenses = [i \in DOMAIN p |-> g.expenses[p[i]]]]

\* C12: the rows computeBalances returns for a group are the rows it returns
\* for the same group with its expense list in any other order.
C12_OrderIndependent ==
    pc = "rows" =>
        /\ balanceRows = computeBalances(group)
        /\ \A p \in Orders(Len(group.expenses)) :
               computeBalances(Permuted(group, p)) = balanceRows

\* Two different expenses, an equal split paid by a non-member and a custom
\* split, with rows that are not zero.
C12_Witness ==
    /\ pc = "rows"
    /\ Len(group.expenses) = 2
    /\ group.expenses[1] # group.expenses[2]
    /\ ~UsesMap(group.expenses[1])
    /\ group.expenses[1].paidBy \notin MemberIds(group) \cup {""}
    /\ UsesMap(group.expenses[2])
    /\ group.expenses[2].paidBy \in MemberIds(group)
    /\ Len(balanceRows) = 2
    /\ \A i \in DOMAIN balanceRows : balanceRows[i].balance # 0


\* C13: for the scenario group computeBalances returns A = +60, B = 0,
\* C = -60, in this order, and computeSettlements returns, for these rows,
\* the single settlement from C to A of 60.
C13_Scenario ==
    group = ScenarioGroup =>
        /\ pc \in {"rows", "match", "settled"} =>
               balanceRows = <<[member |-> Member("a"), balance |-> Cents(6000)],
                               [member |-> Member("b"), balance |-> 0],
                               [member |-> Member("c"), balance |-> Cents(-6000)]>>
        /\ pc = "settled" =>
               settlements = <<[from |-> Member("c"), to |-> Member("a"),
                                amount |-> Cents(6000)]>>

C13_Witness ==
    /\ group = ScenarioGroup
    /\ pc = "settled"
    /\ expIdx = 2
    /\ Len(settlements) = 1
    /\ debtorIndex = 1
    /\ creditorIndex = 1


\* C14: no step of computeBalances changes the group it was given, and no
\* step of computeSettlements changes the rows it was given: the amounts it
\* decrements are those of its own creditors and debtors lists.
C14_InputsUnchanged ==
    [][/\ group' = group
       /\ pc \in {"rows", "match"} => balanceRows' = balanceRows]_vars

\* computeSettlements has paid a debtor in full: its working amount has gone
\* down to 0 and the rows are still the rows computeBalances made.
C14_Witness ==
    /\ pc = "settled"
    /\ Len(group.expenses) = 2
    /\ balanceRows = Rows(group.members, balances)
    /\ Len(settlements) = 1
    /\ \E i \in DOMAIN debtors :
           /\ debtors[i].amount = 0
           /\ \E j \in DOMAIN balanceRows :
                  /\ balanceRows[j].member = debtors[i].member
                  /\ balanceRows[j].balance < -Epsilon


\* What an expense debits from an id when it is debited by its map, and when
\* it is split equally over splitBetween (over the payer when that is empty).
MapDebit(e, id) ==
    IF Len(e.splitAmounts) > 0 /\ id \in DOMAIN e.splitAmounts[1]
    THEN e.splitAmounts[1][id] ELSE 0

EqualDebit(e, id) ==
    LET over == IF e.splitBetween # <<>> THEN e.splitBetween ELSE <<e.paidBy>>
    IN  IF id \in Range(over) THEN e.amount \div Len(over) ELSE 0

\* A step of the loop on an expense that has a payer changes every balance
\* by the credit of the payer minus the debits of the map (byMap) or of the
\* equal split.
StepDebits(byMap) ==
    \A id \in Ids :
        Get(balances', id) =
            Get(balances, id) + Credit(Processed, id)
            - (IF byMap THEN MapDebit(Processed, id) ELSE EqualDebit(Processed, id))

PayerStep ==
    /\ pc = "loop"
    /\ expIdx' = expIdx + 1
    /\ Processed.paidBy # ""

\* C18 as stated: an expense is debited by its map if and only if its
\* splitMode is custom and its map is non-empty, and equally otherwise.
C18_MapIffCustomMode ==
    [][PayerStep =>
         StepDebits(Processed.splitMode = "custom" /\ UsesMap(Processed))]_vars

\* C18: an expense is debited by its map if and only if it carries a
\* non-empty map, whatever its splitMode: an equal-mode expense with a
\* non-empty map is debited by the map; every other expense is debited
\* amount / count equally over splitBetween, or over the payer when
\* splitBetween is empty.
C18_MapIffPresent ==
    [][PayerStep => StepDebits(UsesMap(Processed))]_vars

\* An equal-mode expense with the map {c: 0.04} and splitBetween [b, c] has
\* been processed: c is debited 0.04 and b is not a key.
C18_Witness ==
    /\ pc = "loop"
    /\ expIdx = 1
    /\ group.expenses[1].splitMode = "equal"
    /\ UsesMap(group.expenses[1])
    /\ group.expenses[1].splitBetween = <<"b", "c">>
    /\ group.members = <<Member("b")>>
    /\ balances = [x \in {"a", "b", "c"} |->
                      IF x = "a" THEN Cents(4) ELSE IF x = "b" THEN 0 ELSE Cents(-4)]


\* The balance of a row rounded to cents, as Partition rounds it.
Rounded(row) ==
    IF row.balance > 0 THEN roundToCents(row.balance)
    ELSE IF row.balance < 0 THEN -roundToCents(Abs(row.balance))
    ELSE 0

RECURSIVE SumRounded(_)
SumRounded(rows) ==
    IF rows = <<>> THEN 0 ELSE Rounded(Head(rows)) + SumRounded(Tail(rows))

\* C19: when the balances, each rounded to cents, sum to zero, then at the
\* return every debtor has paid, and every creditor has received, its
\* rounded balance to within 0.01.
C19_NoResidual ==
    (pc = "settled" /\ SumRounded(balanceRows) = 0) =>
        \A i \in DOMAIN balanceRows :
            LET row == balanceRows[i]
            IN  /\ row.balance < 0 =>
                      Abs(SumFrom(settlements, row.member) + Rounded(row)) <= Epsilon
                /\ row.balance > 0 =>
                      Abs(SumTo(settlements, row.member) - Rounded(row)) <= Epsilon


\* The example of the specification: A owes 10, B owes 5, C is owed 15.
ExampleRows ==
    <<[member |-> Member("a"), balance |-> Cents(-1000)],
      [member |-> Member("b"), balance |-> Cents(-500)],
      [member |-> Member("c"), balance |-> Cents(1500)]>>

\* computeSettlements applied to any list of balance rows or to the example.
OrderInit ==
    /\ group = [members |-> <<>>, expenses |-> <<>>]
    /\ balances = EmptyMap
    /\ expIdx = 0
    /\ balanceRows \in RowLists \cup {ExampleRows}
    /\ creditors = <<>>
    /\ debtors = <<>>
    /\ debtorIndex = 0
    /\ creditorIndex = 0
    /\ settlements = <<>>
    /\ pc = "rows"
    /\ SignedOut

OrderSpec == OrderInit /\ [][SettleNext]_vars

\* The position of a member in the rows given to computeSettlements.
Position(member) == CHOOSE i \in DOMAIN balanceRows : balanceRows[i].member = member

\* C20: along the settlements emitted so far the position, in the rows, of
\* the `from` member never decreases and the position of the `to` member
\* never decreases; for the example the list returned is A pays C 10, then
\* B pays C 5.
C20_InputOrder ==
    /\ pc \in {"match", "settled"} =>
          \A k, l \in DOMAIN settlements :
              k < l =>
                  /\ Position(settlements[k].from) <= Position(settlements[l].from)
                  /\ Position(settlements[k].to) <= Position(settlements[l].to)
    /\ (pc = "settled" /\ balanceRows = ExampleRows) =>
          settlements = <<[from |-> Member("a"), to |-> Member("c"), amount |-> Cents(1000)],
                          [from |-> Member("b"), to |-> Member("c"), amount |-> Cents(500)]>>

\* The smaller debt comes first in the rows and is paid first: two
\* settlements, the second larger than the first, from two debtors to two
\* creditors.
C20_Witness ==
    /\ pc = "settled"
    /\ Len(settlements) = 2
    /\ settlements[1].amount < settlements[2].amount
    /\ settlements[1].from # settlements[2].from
    /\ settlements[1].to # settlements[2].to
    /\ Position(settlements[1].to) < Position(settlements[1].from)

\* ------------------------------------------------------------------ the expense form

\* Text is a sequence of characters.
Digits == <<"0", "1", "2", "3", "4", "5", "6", "7", "8", "9">>

IsDigit(c) == c \in Range(Digits)

DigitValue(c) == (CHOOSE i \in DOMAIN Digits : Digits[i] = c) - 1

IsSpace(c) == c = " "

\* String.prototype.trim
RECURSIVE TrimStart(_)
TrimStart(s) ==
    IF s # <<>> /\ IsSpace(Head(s)) THEN TrimStart(Tail(s)) ELSE s

RECURSIVE TrimEnd(_)
TrimEnd(s) ==
    IF s # <<>> /\ IsSpace(s[Len(s)]) THEN TrimEnd(SubSeq(s, 1, Len(s) - 1)) ELSE s

Trim(s) == TrimEnd(TrimStart(s))

\* replace(/\s+/g, " "): every run of white space becomes one space
RECURSIVE CollapseSpaces(_)
CollapseSpaces(s) ==
    IF s = <<>> THEN <<>>
    ELSE IF IsSpace(Head(s))
         THEN <<" ">> \o CollapseSpaces(TrimStart(s))
         ELSE <<Head(s)>> \o CollapseSpaces(Tail(s))

normalizeTitle(value) == CollapseSpaces(Trim(value))

\* toLowerCase, on the letters titles are written with here
toLowerCase(s) == [i \in DOMAIN s |-> IF s[i] = "T" THEN "t" ELSE s[i]]

\* /^\d{4}-\d{2}-\d{2}$/.test(spentOn)
IsDateText(s) ==
    /\ Len(s) = 10
    /\ \A i \in {1, 2, 3, 4, 6, 7, 9, 10} : IsDigit(s[i])
    /\ s[5] = "-"
    /\ s[8] = "-"

\* A number read from the form is carried in thousandths, a tenth of each
\* of the 100 cents of a unit: FormScale stands for 1.
FormScale == 10 * 100

\* the characters replace(/[^0-9.]/g, "") keeps
IsAmountChar(c) == IsDigit(c) \/ c = "."

RECURSIVE IntegerValue(_)
IntegerValue(s) ==
    IF s = <<>> THEN 0
    ELSE IntegerValue(SubSeq(s, 1, Len(s) - 1)) * 10 + DigitValue(s[Len(s)])

\* the digits after the point, the first of them worth weight / 10; digits
\* beyond the thousandths are not carried
RECURSIVE FractionValue(_, _)
FractionValue(s, weight) ==
    IF s = <<>> THEN 0
    ELSE DigitValue(Head(s)) * (weight \div 10) + FractionValue(Tail(s), weight \div 10)

\* Number(text) is NaN: more than one point, or a point and no digit
IsNaN(s) ==
    \/ Cardinality({i \in DOMAIN s : s[i] = "."}) > 1
    \/ s # <<>> /\ \A i \in DOMAIN s : s[i] = "."

\* Number(text) of digits and points that is not NaN; Number("") is 0
Number(s) ==
    LET point == IF \E i \in DOMAIN s : s[i] = "."
                 THEN CHOOSE i \in DOMAIN s : s[i] = "."
                 ELSE Len(s) + 1
    IN  IntegerValue(SubSeq(s, 1, point - 1)) * FormScale
        + FractionValue(SubSeq(s, point + 1, Len(s)), FormScale)

parseAmount(value) ==
    LET normalized == SelectSeq(value, IsAmountChar)
    IN  IF IsNaN(normalized) THEN 0 ELSE Number(normalized)

\* roundToCents of the value num / den, in whole cents: Math.round(value * 100)
roundToCentsRatio(num, den) == (2 * 100 * num + den) \div (2 * den)

\* createId: the time and a random suffix, which tells apart the ids made
\* in the same tick
createId(now, suffix) == <<now, suffix>>

\* nextCustomSplitAmounts[memberId] || "0"
CustomText(nextCustomSplitAmounts, memberId) ==
    IF memberId \in DOMAIN nextCustomSplitAmounts /\ nextCustomSplitAmounts[memberId] # <<>>
    THEN nextCustomSplitAmounts[memberId]
    ELSE <<"0">>

\* Mutant of customAmounts: the entries that round to zero are kept.
customAmountsUnfiltered(fallbackSplit, nextCustomSplitAmounts) ==
    [memberId \in Range(fallbackSplit) |->
        Cents(roundToCentsRatio(parseAmount(CustomText(nextCustomSplitAmounts, memberId)),
                                FormScale))]

\* fallbackSplit.reduce(...): the rounded custom amount of every member of
\* the split whose amount is more than zero
customAmounts(fallbackSplit, nextCustomSplitAmounts) ==
    LET value(memberId) ==
            Cents(roundToCentsRatio(parseAmount(CustomText(nextCustomSplitAmounts, memberId)),
                                    FormScale))
    IN  [memberId \in {id \in Range(fallbackSplit) : value(id) > 0} |-> value(memberId)]

\* payload.fxRate is set only when the rate is not 1
NoFxRate == <<>>

buildExpensePayload(params) ==
    [id |-> params.id,
     title |-> normalizeTitle(params.title),
     amount |-> params.amount,
     currency |-> params.currency,
     originalAmount |-> params.originalAmount,
     fxRate |-> IF params.fxRate # FormScale THEN <<params.fxRate>> ELSE NoFxRate,
     paidBy |-> params.paidBy,
     splitBetween |-> params.splitBetween,
     splitMode |-> params.splitMode,
     splitAmounts |->
         IF /\ params.splitMode = "custom"
            /\ params.splitAmounts # NoSplitAmounts
            /\ DOMAIN params.splitAmounts[1] # {}
         THEN params.splitAmounts
         ELSE NoSplitAmounts,
     spentOn |-> params.spentOn,
     createdAt |-> params.createdAt]

\* next.slice(0, 60)
MaxMasters == 60

Take(s, n) == SubSeq(s, 1, Min(Len(s), n))

\* next.sort by lastUsedAt, latest first; the sort is stable
RECURSIVE SortByLastUsed(_)
SortByLastUsed(s) ==
    IF s = <<>> THEN <<>>
    ELSE LET i == CHOOSE k \in DOMAIN s :
                      \A j \in DOMAIN s :
                          \/ s[k].lastUsedAt > s[j].lastUsedAt
                          \/ s[k].lastUsedAt = s[j].lastUsedAt /\ k <= j
         IN  <<s[i]>> \o SortByLastUsed(SubSeq(s, 1, i - 1) \o SubSeq(s, i + 1, Len(s)))

upsertExpenseMaster(masters, title, now) ==
    LET normalized == normalizeTitle(title)
        matching == {i \in DOMAIN masters :
                        toLowerCase(Trim(masters[i].title)) = toLowerCase(normalized)}
        matchIndex == CHOOSE i \in matching : \A j \in matching : i <= j
        next == IF matching # {}
                THEN [masters EXCEPT ![matchIndex] =
                          [@ EXCEPT !.title = normalized, !.lastUsedAt = now]]
                ELSE <<[id |-> createId(now, 1), title |-> normalized,
                        createdAt |-> now, lastUsedAt |-> now]>> \o masters
    IN  IF normalized = <<>> THEN masters
        ELSE Take(SortByLastUsed(next), MaxMasters)

\* ------------------------------------------------------------------ the form's inputs

baseCurrency == "USD"

DateText == <<"2", "0", "2", "4", "-", "0", "1", "-", "0", "5">>

\* What the user left in the form when the button is pressed.
Form(title, amount, date, currency, fxRate, paidBy, splitBetween, splitMode, custom) ==
    [expenseTitle |-> title, expenseAmount |-> amount, expenseDate |-> date,
     expenseCurrency |-> currency, expenseFxRate |-> fxRate, paidBy |-> paidBy,
     splitBetween |-> splitBetween, splitMode |-> splitMode,
     customSplitAmounts |-> custom]

NoCustom == EmptyMap

FormPool ==
    { \* 4 of another currency at the rate .5, paid by a, split equally
      \* between a and b, with a custom amount left over in the form
      Form(<<"t">>, <<"4">>, DateText, "EUR", <<".", "5">>, "a", <<"a", "b">>, "equal",
           [id \in {"b"} |-> <<"4">>]),
      \* 0.004, more than zero and less than half a cent, nobody ticked, in
      \* custom mode with a custom amount that rounds to zero
      Form(<<" ", "T">>, <<"0", ".", "0", "0", "4">>, DateText, "USD", <<"1">>, "a", <<>>,
           "custom", [id \in {"a"} |-> <<".", "0", "0", "4">>]),
      \* $4 split by custom amounts, 4 for a and 0 for b, with a stale entry
      \* for c: the map is sparse
      Form(<<"u">>, <<"$", "4">>, DateText, "USD", <<"1">>, "b", <<"a", "b">>, "custom",
           [id \in {"a", "b", "c"} |->
               IF id = "a" THEN <<"4">> ELSE IF id = "b" THEN <<"0">> ELSE <<"9">>]),
      \* a rate of zero, an empty title, an amount that is not a number, a date
      \* that is not a date: the guards return
      Form(<<"t">>, <<"4">>, DateText, "EUR", <<"0">>, "a", <<"a", "b">>, "equal", NoCustom),
      Form(<<" ">>, <<"4">>, DateText, "USD", <<"1">>, "a", <<"a", "b">>, "equal", NoCustom),
      Form(<<"t">>, <<"4", ".", "4", ".">>, DateText, "USD", <<"1">>, "a", <<"a", "b">>,
           "equal", NoCustom),
      Form(<<"t">>, <<"4">>, <<"2", "0", "2", "4", "-", "1", "-", "5">>, "USD", <<"1">>, "a",
           <<"a", "b">>, "equal", NoCustom) }

\* ------------------------------------------------------------------ the handlers

\* The guards addExpense and saveExpenseEdits share.
FormTitle(form) == Trim(form.expenseTitle)

FormOriginalAmount(form) == parseAmount(form.expenseAmount)

FormSpentOn(form) == Trim(form.expenseDate)

FormFxRate(form) ==
    IF form.expenseCurrency = baseCurrency THEN FormScale
    ELSE parseAmount(form.expenseFxRate)

PassesGuards(form) ==
    /\ FormTitle(form) # <<>>
    /\ FormOriginalAmount(form) > 0
    /\ IsDateText(FormSpentOn(form))
    /\ FormFxRate(form) > 0

\* amount = roundToCents(originalAmount * fxRate)
FormAmount(form) ==
    Cents(roundToCentsRatio(FormOriginalAmount(form) * FormFxRate(form),
                            FormScale * FormScale))

FallbackSplit(form) ==
    IF Len(form.splitBetween) > 0 THEN form.splitBetween ELSE <<form.paidBy>>

\* The expense the two handlers build from the form.
FormExpense(form, id, createdAt) ==
    buildExpensePayload(
        [id |-> id,
         title |-> FormTitle(form),
         amount |-> FormAmount(form),
         currency |-> form.expenseCurrency,
         originalAmount |-> FormOriginalAmount(form),
         fxRate |-> FormFxRate(form),
         paidBy |-> form.paidBy,
         splitBetween |-> FallbackSplit(form),
         splitMode |-> form.splitMode,
         splitAmounts |->
             IF form.splitMode = "custom"
             THEN SplitAmounts(customAmounts(FallbackSplit(form), form.customSplitAmounts))
             ELSE NoSplitAmounts,
         spentOn |-> FormSpentOn(form),
         createdAt |-> createdAt])

\* The updateDoc call of a handler: the fields it names (sets) with the
\* values it sends for them, and the snapshot they were computed from.
Write(kind, c, g, sets, nextMembers, nextExpenses, nextMasters) ==
    [kind |-> kind, client |-> c, sets |-> sets,
     base |-> g.expenses, baseMembers |-> g.members,
     members |-> nextMembers, expenses |-> nextExpenses,
     expenseMasters |-> nextMasters]

\* The fields addExpense and saveExpenseEdits send.
ExpenseFields == {"expenses", "expenseMasters"}

\* Mutant of NextExpenses: the new expense is put last.
NextExpensesAppended(newExpense, expenses) == Append(expenses, newExpense)

\* [newExpense, ...activeGroup.expenses]
NextExpenses(newExpense, expenses) == <<newExpense>> \o expenses

\* addExpense by client c with the form as it is: the guards hold and the
\* write is sent.
AddExpenseOf(c, form) ==
    /\ clock <= MaxWrites
    /\ activeGroup[c] # NoGroup
    /\ PassesGuards(form)
    /\ LET g == activeGroup[c][1]
           newExpense == FormExpense(form, createId(clock, 0), clock)
           nextExpenses == NextExpenses(newExpense, g.expenses)
           nextMasters == upsertExpenseMaster(g.expenseMasters, FormTitle(form), clock)
       IN  inFlight' = [inFlight EXCEPT ![c] =
               Append(@, Write("add", c, g, ExpenseFields, g.members,
                               nextExpenses, nextMasters))]
    /\ clock' = clock + 1
    /\ UNCHANGED <<cloud, activeGroup, committed, prefill, engineVars>>

\* saveExpenseEdits by client c on the expense whose id is editingExpenseId,
\* an expense of the client's group.
SaveExpenseEditsOf(c, form, editingExpenseId) ==
    /\ clock <= MaxWrites
    /\ activeGroup[c] # NoGroup
    /\ \E expense \in Range(activeGroup[c][1].expenses) : expense.id = editingExpenseId
    /\ PassesGuards(form)
    /\ LET g == activeGroup[c][1]
           nextExpenses ==
               [i \in DOMAIN g.expenses |->
                   IF g.expenses[i].id = editingExpenseId
                   THEN FormExpense(form, g.expenses[i].id, g.expenses[i].createdAt)
                   ELSE g.expenses[i]]
           nextMasters == upsertExpenseMaster(g.expenseMasters, FormTitle(form), clock)
       IN  inFlight' = [inFlight EXCEPT ![c] =
               Append(@, Write("save", c, g, ExpenseFields, g.members,
                               nextExpenses, nextMasters))]
    /\ clock' = clock + 1
    /\ UNCHANGED <<cloud, activeGroup, committed, prefill, engineVars>>

addExpense ==
    \E c \in Clients, form \in FormPool : AddExpenseOf(c, form)

saveExpenseEdits ==
    \E c \in Clients, form \in FormPool, editingExpenseId \in {createId(n, 0) : n \in 0..clock} :
        SaveExpenseEditsOf(c, form, editingExpenseId)

\* Mutant of Stored: the new expense of an add is put in front of the list
\* the document holds.
StoredInFront(doc, write) ==
    [members |-> IF "members" \in write.sets THEN write.members ELSE doc.members,
     expenses |-> IF write.kind = "add"
                  THEN <<Head(write.expenses)>> \o doc.expenses
                  ELSE IF "expenses" \in write.sets THEN write.expenses
                  ELSE doc.expenses,
     expenseMasters |-> IF "expenseMasters" \in write.sets THEN write.expenseMasters
                        ELSE doc.expenseMasters]

\* updateDoc(doc, fields): the fields named are replaced, the others kept
Stored(doc, write) ==
    [members |-> IF "members" \in write.sets THEN write.members ELSE doc.members,
     expenses |-> IF "expenses" \in write.sets THEN write.expenses ELSE doc.expenses,
     expenseMasters |-> IF "expenseMasters" \in write.sets THEN write.expenseMasters
                        ELSE doc.expenseMasters]

\* The document accepts the oldest write a client has in flight.
updateDocResolves ==
    \E c \in Clients :
        /\ inFlight[c] # <<>>
        /\ cloud' = Stored(cloud, Head(inFlight[c]))
        /\ committed' = Append(committed, Head(inFlight[c]))
        /\ inFlight' = [inFlight EXCEPT ![c] = Tail(@)]
        /\ UNCHANGED <<activeGroup, clock, prefill, engineVars>>

\* The write is refused: the handler's catch shows the error, and the
\* document is as it was.
updateDocRejects ==
    \E c \in Clients :
        /\ inFlight[c] # <<>>
        /\ inFlight' = [inFlight EXCEPT ![c] = Tail(@)]
        /\ UNCHANGED <<cloud, activeGroup, clock, committed, prefill, engineVars>>

\* The document as a client sees it: its writes in flight, oldest first,
\* over what the document holds.
RECURSIVE LocalView(_, _)
LocalView(doc, writes) ==
    IF writes = <<>> THEN doc
    ELSE LocalView(Stored(doc, Head(writes)), Tail(writes))

\* The listener delivers the document as the client sees it.
onSnapshot ==
    \E c \in Clients :
        /\ LET data == LocalView(cloud, inFlight[c])
           IN  activeGroup' = [activeGroup EXCEPT ![c] =
                   <<[members |-> data.members, expenses |-> data.expenses,
                      expenseMasters |-> data.expenseMasters]>>]
        /\ activeGroup'[c] # activeGroup[c]
        /\ UNCHANGED <<cloud, inFlight, clock, committed, prefill, engineVars>>

\* A group that holds one expense already.
SeedExpense ==
    FormExpense(Form(<<"t">>, <<"4">>, DateText, "USD", <<"1">>, "b", <<"a", "b">>,
                     "equal", NoCustom),
                createId(0, 0), 0)

\* The group the clients share: two members, one expense.
SeedGroup ==
    [members |-> <<Member("a"), Member("b")>>,
     expenses |-> <<SeedExpense>>,
     expenseMasters |-> upsertExpenseMaster(<<>>, <<"t">>, 0)]

AppInit ==
    /\ group = [members |-> <<>>, expenses |-> <<>>]
    /\ balances = EmptyMap
    /\ expIdx = 0
    /\ balanceRows = NoRows
    /\ creditors = <<>>
    /\ debtors = <<>>
    /\ debtorIndex = 0
    /\ creditorIndex = 0
    /\ settlements = <<>>
    /\ pc = "app"
    /\ cloud = SeedGroup
    /\ activeGroup = [c \in Clients |-> NoGroup]
    /\ inFlight = [c \in Clients |-> <<>>]
    /\ clock = 1
    /\ committed = <<>>
    /\ prefill = NoPrefill

AppNext ==
    \/ addExpense
    \/ saveExpenseEdits
    \/ updateDocResolves
    \/ updateDocRejects
    \/ onSnapshot

AppSpec == AppInit /\ [][AppNext]_vars

\* ------------------------------------------------------------------ claims on the handlers

\* The writes sent so far: in flight or accepted.
Writes ==
    Range(committed) \cup UNION {Range(inFlight[c]) : c \in Clients}

\* The expenses the handlers have written: those of the writes, less those
\* of the snapshot each write started from.
Written ==
    UNION {Range(w.expenses) \ Range(w.base) : w \in Writes}

\* C15: every expense the handlers write has an amount of more than zero.
C15_AmountPositive ==
    \A e \in Written : e.amount > 0

\* C16: in every expense the handlers write, splitAmounts is there only in
\* custom mode, and then it is not empty, its keys are ids of the stored
\* splitBetween, and its values are more than zero.
C16_SplitAmountsWellFormed ==
    \A e \in Written :
        e.splitAmounts # NoSplitAmounts =>
            /\ e.splitMode = "custom"
            /\ DOMAIN e.splitAmounts[1] # {}
            /\ DOMAIN e.splitAmounts[1] \subseteq Range(e.splitBetween)
            /\ \A id \in DOMAIN e.splitAmounts[1] : e.splitAmounts[1][id] > 0

\* The document holds an expense written by saveExpenseEdits in custom mode
\* whose map leaves out a member of its splitBetween, and one written in
\* custom mode with no map at all is in a write.
C16_Witness ==
    /\ \E w \in Range(committed) :
          /\ w.kind = "save"
          /\ \E e \in Range(w.expenses) \ Range(w.base) :
                /\ e \in Range(cloud.expenses)
                /\ e.splitAmounts # NoSplitAmounts
                /\ DOMAIN e.splitAmounts[1] # Range(e.splitBetween)
    /\ \E e \in Written : e.splitMode = "custom" /\ e.splitAmounts = NoSplitAmounts

\* Two adds of different clients computed from the same snapshot.
SameSnapshotAdds(first, second) ==
    /\ first.kind = "add"
    /\ second.kind = "add"
    /\ first.client # second.client
    /\ first.base = second.base

\* C17: the document holds the expenses of the write it accepted last; when
\* that write and an earlier one are adds of two clients from the same
\* snapshot, the list is the later one's new expense followed by that
\* snapshot, and the earlier one's new expense is not in it.
C17_LastWriterWins ==
    /\ committed # <<>> => cloud.expenses = committed[Len(committed)].expenses
    /\ \A i \in DOMAIN committed :
          LET last == committed[Len(committed)]
          IN  (i < Len(committed) /\ SameSnapshotAdds(committed[i], last)) =>
                  /\ cloud.expenses = <<Head(last.expenses)>> \o last.base
                  /\ Head(committed[i].expenses) \notin Range(cloud.expenses)

\* Both clients added to a group of one expense from the same snapshot, and
\* the document accepted both writes.
C17_Witness ==
    /\ Len(committed) = 2
    /\ SameSnapshotAdds(committed[1], committed[2])
    /\ committed[2].base # <<>>
    /\ Len(cloud.expenses) = 2

\* ------------------------------------------------------------------ claims on the engine, continued

\* A step of the loop on an expense with a payer, an empty splitBetween and
\* a split the specification calls equal: equal mode, or custom mode with
\* no map or an empty one.
PayerOnlyStepByMode ==
    /\ PayerStep
    /\ Processed.splitBetween = <<>>
    /\ \/ Processed.splitMode = "equal"
       \/ Processed.splitMode = "custom" /\ ~UsesMap(Processed)

\* C21 as stated: an expense in equal mode, or in custom mode with no map or
\* an empty one, whose splitBetween is empty leaves every balance unchanged.
C21_PayerOnlyByMode ==
    [][PayerOnlyStepByMode =>
         \A id \in Ids : Get(balances', id) = Get(balances, id)]_vars

\* C21: an expense that carries no map or an empty one, whatever its
\* splitMode, and whose splitBetween is empty is charged to its payer alone:
\* the payer is credited and debited the amount, so that every balance is
\* what it was, and the payer is the only key the step can add.
C21_PayerOnly ==
    [][(PayerStep /\ Processed.splitBetween = <<>> /\ ~UsesMap(Processed)) =>
         /\ \A id \in Ids : Get(balances', id) = Get(balances, id)
         /\ DOMAIN balances' = DOMAIN balances \cup {Processed.paidBy}]_vars

\* An expense with an empty splitBetween and no map has been processed
\* after an equal split that left its payer a balance.
C21_Witness ==
    /\ pc = "loop"
    /\ expIdx = 2
    /\ group.expenses[2].splitBetween = <<>>
    /\ ~UsesMap(group.expenses[2])
    /\ group.expenses[2].paidBy = "a"
    /\ group.expenses[1].paidBy = "c"
    /\ ~UsesMap(group.expenses[1])
    /\ balances["a"] = NetUpTo(group.expenses, 1, "a")
    /\ balances["a"] < 0

\* The group without its expense at position i.
WithoutExpense(g, i) ==
    [g EXCEPT !.expenses = SubSeq(@, 1, i - 1) \o SubSeq(@, i + 1, Len(@))]

\* C22: the rows computeBalances returns for a group are the rows it returns
\* for the group without any one of its expenses that has no payer, whatever
\* the amount, splitBetween and splitAmounts of that expense.
C22_NoPayerSkipped ==
    pc = "rows" =>
        \A i \in DOMAIN group.expenses :
            group.expenses[i].paidBy = "" =>
                balanceRows = computeBalances(WithoutExpense(group, i))

\* The rows of a group of two members whose first expense has no payer and
\* a map, and whose second has a payer and leaves rows that are not zero.
C22_Witness ==
    /\ pc = "rows"
    /\ Len(group.expenses) = 2
    /\ group.expenses[1].paidBy = ""
    /\ UsesMap(group.expenses[1])
    /\ group.expenses[2].paidBy # ""
    /\ Len(balanceRows) = 2
    /\ \A i \in DOMAIN balanceRows : balanceRows[i].balance # 0

\* What the rows owe and are owed, rounded to cents, by position in the
\* lists of debtors and of creditors.
Debts == Debtors(balanceRows)

Credits == Creditors(balanceRows)

\* An iteration of the loop of computeSettlements that emits a settlement.
EmittingStep ==
    /\ pc = "match"
    /\ settlements' # settlements

\* The amounts paid and received so far are within the rounded debts and
\* credits, and no remaining amount is negative.
WithinDebtsAndCredits ==
    pc \in {"match", "settled"} =>
        /\ \A i \in DOMAIN debtors :
               /\ debtors[i].amount >= 0
               /\ SumFrom(settlements, debtors[i].member) <= Debts[i].amount
               /\ SumFrom(settlements, debtors[i].member) + debtors[i].amount
                     = Debts[i].amount
        /\ \A i \in DOMAIN creditors :
               /\ creditors[i].amount >= 0
               /\ SumTo(settlements, creditors[i].member) <= Credits[i].amount
               /\ SumTo(settlements, creditors[i].member) + creditors[i].amount
                     = Credits[i].amount

\* C23: the settlement an iteration emits is from the current debtor to the
\* current creditor and its amount is the smaller of their two remaining
\* amounts; at every step what a debtor has paid is at most its debt
\* rounded to cents, what a creditor has received is at most its credit
\* rounded to cents, and no remaining amount is negative.
C23_PaymentIsMin ==
    /\ []WithinDebtsAndCredits
    /\ [][EmittingStep =>
             LET debtor == debtors[debtorIndex + 1]
                 creditor == creditors[creditorIndex + 1]
                 emitted == settlements'[Len(settlements')]
             IN  /\ settlements' = Append(settlements, emitted)
                 /\ emitted.from = debtor.member
                 /\ emitted.to = creditor.member
                 /\ emitted.amount <= debtor.amount
                 /\ emitted.amount <= creditor.amount
                 /\ emitted.amount \in {debtor.amount, creditor.amount}]_vars

\* A debtor has paid all of its rounded debt in two settlements, the first
\* of which was all that its creditor was owed.
C23_Witness ==
    /\ pc = "settled"
    /\ Len(settlements) = 2
    /\ settlements[1].from = settlements[2].from
    /\ settlements[1].to # settlements[2].to
    /\ Len(debtors) = 1
    /\ SumFrom(settlements, debtors[1].member) = Debts[1].amount
    /\ settlements[1].amount = Credits[1].amount
    /\ settlements[1].amount < settlements[2].amount

\* computeSettlements, every iteration of which is taken in the end.
SettleFairSpec == SettleInit /\ [][SettleNext]_vars /\ WF_vars(SettleNext)

\* C24: computeSettlements returns in the end; an iteration of its loop is
\* taken only while both cursors are inside their lists and moves the
\* debtor cursor or the creditor cursor, or both, by one; when it has
\* returned a cursor is at the end of its list.
C24_Terminates ==
    /\ <>(pc = "settled")
    /\ [](pc = "settled" =>
             debtorIndex = Len(debtors) \/ creditorIndex = Len(creditors))
    /\ [][(pc = "match" /\ pc' = "match") =>
             /\ debtorIndex < Len(debtors)
             /\ creditorIndex < Len(creditors)
             /\ debtorIndex' \in {debtorIndex, debtorIndex + 1}
             /\ creditorIndex' \in {creditorIndex, creditorIndex + 1}
             /\ debtorIndex' + creditorIndex' > debtorIndex + creditorIndex]_vars

\* It has returned after two iterations that each moved both cursors, with
\* the two debtors exhausted and a third creditor left.
C24_Witness ==
    /\ pc = "settled"
    /\ Len(debtors) = 2
    /\ debtorIndex = 2
    /\ Len(creditors) = 3
    /\ creditorIndex = 2
    /\ Len(settlements) = 2

\* C25: a debtor the debtor cursor has moved past has at most 0.01 left to
\* pay: the settlements from it total at least its rounded debt minus 0.01;
\* a creditor the creditor cursor has moved past has at most 0.01 left to
\* receive: the settlements to it total at least its rounded credit minus
\* 0.01.
C25_PassedWithinOneCent ==
    pc \in {"match", "settled"} =>
        /\ \A i \in 1..debtorIndex :
               /\ debtors[i].amount <= Cents(1)
               /\ SumFrom(settlements, debtors[i].member) >= Debts[i].amount - Cents(1)
        /\ \A i \in 1..creditorIndex :
               /\ creditors[i].amount <= Cents(1)
               /\ SumTo(settlements, creditors[i].member) >= Credits[i].amount - Cents(1)

\* The cursor has moved past a debtor that has one cent left to pay: it
\* owed 0.03 and paid the 0.02 its creditor was owed.
C25_Witness ==
    /\ pc = "settled"
    /\ debtorIndex = 1
    /\ debtors[1].amount = Cents(1)
    /\ Debts[1].amount = Cents(3)
    /\ SumFrom(settlements, debtors[1].member) = Cents(2)
    /\ Len(debtors) = 2

\* The members of a group have distinct ids, every expense is paid by a
\* member and debits members only, and every map an expense carries sums to
\* the amount of the expense, an empty map aside, which debits nobody.
WellFormedGroup(g) ==
    /\ IsInjective([i \in DOMAIN g.members |-> g.members[i].id])
    /\ \A k \in DOMAIN g.expenses :
           LET e == g.expenses[k]
           IN  /\ e.paidBy \in MemberIds(g)
               /\ Targets(e) \subseteq MemberIds(g)
               /\ UsesMap(e) => SumMap(e.splitAmounts[1]) = e.amount

\* C27: for a group of members with distinct ids whose expenses are paid by
\* members, debit members only and carry maps that sum to their amounts,
\* the balances of the rows computeBalances returns sum to 0, and so do
\* those of the rows it returns for the expenses in any other order and
\* for any leading part of them.
C27_WellFormedZeroSum ==
    (pc = "rows" /\ WellFormedGroup(group)) =>
        /\ SumRows(balanceRows) = 0
        /\ \A p \in Orders(Len(group.expenses)) :
               SumRows(computeBalances(Permuted(group, p))) = 0
        /\ \A n \in 0..Len(group.expenses) :
               SumRows(computeBalances([group EXCEPT !.expenses = SubSeq(@, 1, n)])) = 0

\* The rows of a well-formed group of two members and two expenses, an
\* equal split over one member and a custom split over both, none zero.
C27_Witness ==
    /\ pc = "rows"
    /\ WellFormedGroup(group)
    /\ Len(group.members) = 2
    /\ Len(group.expenses) = 2
    /\ ~UsesMap(group.expenses[1])
    /\ group.expenses[1].splitBetween # <<>>
    /\ UsesMap(group.expenses[2])
    /\ group.expenses[2].splitMode = "custom"
    /\ Cardinality(DOMAIN group.expenses[2].splitAmounts[1]) = 2
    /\ \A i \in DOMAIN balanceRows : balanceRows[i].balance # 0

\* ------------------------------------------------------------------ claims on the handlers, continued

\* The list an add sends: a new expense, then the snapshot as it was.
AddKeepsSnapshot(w) ==
    /\ Len(w.expenses) = Len(w.base) + 1
    /\ Tail(w.expenses) = w.base
    /\ \A i \in DOMAIN w.base : w.expenses[1].id # w.base[i].id

\* The list a save sends: the snapshot with one expense replaced, which
\* keeps its position, its id and its createdAt.
SaveKeepsSnapshot(w) ==
    /\ Len(w.expenses) = Len(w.base)
    /\ \A i \in DOMAIN w.base :
           /\ w.expenses[i].id = w.base[i].id
           /\ w.expenses[i].createdAt = w.base[i].createdAt
    /\ \E editingExpenseId \in {w.base[i].id : i \in DOMAIN w.base} :
           \A i \in DOMAIN w.base :
               w.base[i].id # editingExpenseId => w.expenses[i] = w.base[i]

\* C28: the list addExpense writes is the new expense followed by the
\* expenses of the writer's snapshot, unchanged and in their order; the list
\* saveExpenseEdits writes has the length of the snapshot, the edited
\* expense at its position with its id and createdAt, and every other
\* expense unchanged; neither write names the members field, and the
\* members of the document stay what they were.
C28_OtherExpensesKept ==
    /\ \A w \in Writes :
           /\ w.kind = "add" => AddKeepsSnapshot(w)
           /\ w.kind = "save" => SaveKeepsSnapshot(w)
           /\ w.kind \in {"add", "save"} => "members" \notin w.sets
    /\ cloud.members = SeedGroup.members

\* The document accepted a save that changed the second of two expenses
\* and kept the first, which an add had put in front.
C28_Witness ==
    \E w \in Range(committed) :
        /\ w.kind = "save"
        /\ Len(w.base) = 2
        /\ w.expenses[1] = w.base[1]
        /\ w.expenses[2] # w.base[2]
        /\ w.expenses[2].title # w.base[2].title
        /\ cloud.expenses = w.expenses

\* ------------------------------------------------------------------ addMember

\* What is typed in the member name field.
MemberNames == {<<" ">>, <<" ", "n">>, <<"m">>}

\* Mutant of MemberFields: the whole group is written back.
MemberFieldsAll == {"members", "expenses", "expenseMasters"}

\* The fields addMember sends.
MemberFields == {"members"}

addMember ==
    \E c \in Clients, memberName \in MemberNames :
        /\ clock <= MaxWrites
        /\ activeGroup[c] # NoGroup
        /\ Trim(memberName) # <<>>
        /\ LET g == activeGroup[c][1]
               newMember == [id |-> createId(clock, 0), name |-> Trim(memberName)]
               nextMembers == Append(g.members, newMember)
           IN  inFlight' = [inFlight EXCEPT ![c] =
                   Append(@, Write("member", c, g, MemberFields, nextMembers,
                                   g.expenses, g.expenseMasters))]
        /\ clock' = clock + 1
        /\ UNCHANGED <<cloud, activeGroup, committed, prefill, engineVars>>

\* The form of an expense of 4.00 split equally.
PlainForm ==
    Form(<<"u">>, <<"4">>, DateText, "USD", <<"1">>, "a", <<"a", "b">>, "equal", NoCustom)

\* addExpense with that form.
addPlainExpense ==
    \E c \in Clients : AddExpenseOf(c, PlainForm)

MemberNext ==
    \/ addMember
    \/ addPlainExpense
    \/ updateDocResolves
    \/ updateDocRejects
    \/ onSnapshot

\* Members and expenses are added to the group by two clients.
MemberSpec == AppInit /\ [][MemberNext]_vars

\* The two writes the document accepted last are an addMember and an
\* addExpense of two clients, computed from the same snapshot.
MemberAndExpense(memberWrite, expenseWrite) ==
    /\ memberWrite.kind = "member"
    /\ expenseWrite.kind = "add"
    /\ memberWrite.client # expenseWrite.client
    /\ memberWrite.base = expenseWrite.base
    /\ memberWrite.baseMembers = expenseWrite.baseMembers

\* The group holds the member the one write added and the expense the
\* other added.
HoldsBoth(memberWrite, expenseWrite) ==
    /\ cloud.members = memberWrite.members
    /\ Len(cloud.members) = Len(memberWrite.baseMembers) + 1
    /\ cloud.expenses = expenseWrite.expenses
    /\ Len(cloud.expenses) = Len(expenseWrite.base) + 1

expenseBaseAmount(form) ==
    IF FormFxRate(form) <= 0 THEN 0
    ELSE roundToCentsRatio(FormOriginalAmount(form) * FormFxRate(form),
                           FormScale * FormScale)

\* customTotal: the custom amounts of splitBetween as typed, added up
RECURSIVE customTotal(_, _)
customTotal(splitBetween, customSplitAmounts) ==
    IF splitBetween = <<>> THEN 0
    ELSE parseAmount(CustomText(customSplitAmounts, Head(splitBetween)))
         + customTotal(Tail(splitBetween), customSplitAmounts)

\* Math.abs(roundToCents(customTotal) - roundToCents(expenseBaseAmount)) <= 0.01
customTotalMatches(form) ==
    /\ form.splitMode = "custom"
    /\ Len(form.splitBetween) > 0
    /\ Abs(roundToCentsRatio(customTotal(form.splitBetween, form.customSplitAmounts),
                             FormScale)
           - expenseBaseAmount(form)) <= 1

canSubmitExpense(form) ==
    /\ Len(Trim(form.expenseTitle)) > 0
    /\ FormOriginalAmount(form) > 0
    /\ IsDateText(Trim(form.expenseDate))
    /\ (form.expenseCurrency = baseCurrency \/ FormFxRate(form) > 0)
    /\ form.paidBy # ""
    /\ \/ form.splitMode = "equal"
       \/ Len(form.splitBetween) > 0 /\ customTotalMatches(form)

\* What is in the form when the button is pressed.
SubmitPool ==
    { \* 4.02 split by custom amounts of 2.004 each
      Form(<<"t">>, <<"4", ".", "0", "2">>, DateText, "USD", <<"1">>, "a", <<"a", "b">>,
           "custom", [id \in {"a", "b"} |-> <<"2", ".", "0", "0", "4">>]),
      \* 4 split by custom amounts 3 and 1
      Form(<<"t">>, <<"4">>, DateText, "USD", <<"1">>, "a", <<"a", "b">>, "custom",
           [id \in {"a", "b"} |-> IF id = "a" THEN <<"3">> ELSE <<"1">>]),
      \* 4 split equally
      Form(<<"u">>, <<"4">>, DateText, "USD", <<"1">>, "b", <<"a", "b">>, "equal", NoCustom),
      \* 4 with custom amounts 1 and 1, and 4 paid by nobody: the button is
      \* disabled
      Form(<<"t">>, <<"4">>, DateText, "USD", <<"1">>, "a", <<"a", "b">>, "custom",
           [id \in {"a", "b"} |-> <<"1">>]),
      Form(<<"t">>, <<"4">>, DateText, "USD", <<"1">>, "", <<"a", "b">>, "equal", NoCustom) }

\* The button, enabled by canSubmitExpense: saveExpenseEdits when an expense
\* is being edited, addExpense otherwise.
submitExpense ==
    \E c \in Clients, form \in SubmitPool :
        /\ canSubmitExpense(form)
        /\ \/ AddExpenseOf(c, form)
           \/ \E editingExpenseId \in {createId(n, 0) : n \in 0..clock} :
                  SaveExpenseEditsOf(c, form, editingExpenseId)

SubmitNext ==
    \/ submitExpense
    \/ updateDocResolves
    \/ updateDocRejects
    \/ onSnapshot

\* Expenses are added and edited through the button only.
SubmitSpec == AppInit /\ [][SubmitNext]_vars

\* C26: in every custom-mode expense written through the button, the
\* values stored in splitAmounts sum to within 0.01 of the stored amount.
C26_StoredTotalMatches ==
    \A e \in Written :
        (e.splitMode = "custom" /\ e.splitAmounts # NoSplitAmounts) =>
            Abs(SumMap(e.splitAmounts[1]) - e.amount) <= Cents(1)

\* ------------------------------------------------------------------ buildEqualCustomAmounts

\* toFixed(2) of a whole number of cents: the sign when it is below zero,
\* the units, the point and two digits
RECURSIVE DigitsOf(_)
DigitsOf(n) ==
    IF n < 10 THEN <<Digits[n + 1]>>
    ELSE Append(DigitsOf(n \div 10), Digits[(n % 10) + 1])

toFixed2(cents) ==
    (IF cents < 0 THEN <<"-">> ELSE <<>>)
    \o DigitsOf(Abs(cents) \div 100)
    \o <<".">>
    \o <<Digits[((Abs(cents) % 100) \div 10) + 1], Digits[(Abs(cents) % 10) + 1]>>

\* formatMoney of a value given in cents: roundToCents, then toFixed(2)
formatMoney(cents) == toFixed2(roundToCentsRatio(cents, 100))

\* The calls of buildEqualCustomAmounts of the model: the first ids of
\* RowIds, none included, and every total from 0 up.
PrefillCalls ==
    {[memberIds |-> SubSeq(RowIds, 1, n), total |-> t, at |-> "call",
      share |-> 0, remaining |-> 0, index |-> 0, amounts |-> EmptyMap] :
        n \in 0..MaxPrefillIds, t \in 0..MaxPrefillTotal}

\* if (memberIds.length === 0 || total <= 0) return {}; share and remaining
prefillEnter ==
    /\ prefill.at = "call"
    /\ prefill' =
          IF Len(prefill.memberIds) = 0 \/ prefill.total <= 0
          THEN [prefill EXCEPT !.at = "returned"]
          ELSE [prefill EXCEPT
                   !.at = "forEach",
                   !.share = roundToCentsRatio(prefill.total,
                                               Len(prefill.memberIds) * FormScale),
                   !.remaining = roundToCentsRatio(prefill.total, FormScale)]
    /\ UNCHANGED <<cloud, activeGroup, inFlight, clock, committed, engineVars>>

\* One call of the forEach callback.
prefillEach ==
    /\ prefill.at = "forEach"
    /\ prefill.index < Len(prefill.memberIds)
    /\ LET id == prefill.memberIds[prefill.index + 1]
           value == IF prefill.index = Len(prefill.memberIds) - 1
                    THEN prefill.remaining ELSE prefill.share
       IN  prefill' =
               [prefill EXCEPT
                   !.amounts = [x \in DOMAIN @ \cup {id} |->
                                   IF x = id THEN formatMoney(value) ELSE @[x]],
                   !.remaining = roundToCentsRatio(@ - prefill.share, 100),
                   !.index = @ + 1]
    /\ UNCHANGED <<cloud, activeGroup, inFlight, clock, committed, engineVars>>

\* return amounts
prefillReturn ==
    /\ prefill.at = "forEach"
    /\ prefill.index = Len(prefill.memberIds)
    /\ prefill' = [prefill EXCEPT !.at = "returned"]
    /\ UNCHANGED <<cloud, activeGroup, inFlight, clock, committed, engineVars>>

PrefillInit ==
    /\ group = [members |-> <<>>, expenses |-> <<>>]
    /\ balances = EmptyMap
    /\ expIdx = 0
    /\ balanceRows = NoRows
    /\ creditors = <<>>
    /\ debtors = <<>>
    /\ debtorIndex = 0
    /\ creditorIndex = 0
    /\ settlements = <<>>
    /\ pc = "form"
    /\ cloud = SeedGroup
    /\ activeGroup = [c \in Clients |-> NoGroup]
    /\ inFlight = [c \in Clients |-> <<>>]
    /\ clock = 1
    /\ committed = <<>>
    /\ prefill \in PrefillCalls

PrefillNext ==
    \/ prefillEnter
    \/ prefillEach
    \/ prefillReturn

PrefillSpec == PrefillInit /\ [][PrefillNext]_vars

\* The number a text of the form stands for, in cents: Number(text), with
\* its sign.
CentsOfText(text) ==
    IF text # <<>> /\ Head(text) = "-"
    THEN 0 - roundToCentsRatio(Number(Tail(text)), FormScale)
    ELSE roundToCentsRatio(Number(text), FormScale)

RECURSIVE SumOfTexts(_, _)
SumOfTexts(amounts, ids) ==
    IF ids = <<>> THEN 0
    ELSE CentsOfText(amounts[Head(ids)]) + SumOfTexts(amounts, Tail(ids))

\* C30: for one id or more and a total above zero, buildEqualCustomAmounts
\* returns one amount for every id, none of them below zero, that sum to
\* the total rounded to cents; every id but the last gets the total
\* divided by the number of ids, rounded to cents, and the last gets what
\* is left.
C30_PrefillSums ==
    (prefill.at = "returned" /\ Len(prefill.memberIds) > 0 /\ prefill.total > 0) =>
        LET ids == prefill.memberIds
            n == Len(ids)
            each == roundToCentsRatio(prefill.total, n * FormScale)
            whole == roundToCentsRatio(prefill.total, FormScale)
        IN  /\ DOMAIN prefill.amounts = Range(ids)
            /\ \A i \in 1..n : CentsOfText(prefill.amounts[ids[i]]) >= 0
            /\ SumOfTexts(prefill.amounts, ids) = whole
            /\ \A i \in 1..(n - 1) : CentsOfText(prefill.amounts[ids[i]]) = each
            /\ CentsOfText(prefill.amounts[ids[n]]) = whole - (n - 1) * each

====
